---- MODULE Spec2Model ----
(***************************************************************************)
(* A model of methane_combustion_pinn.py: the script that sets up and      *)
(* trains a physics-informed network for a 1D methane combustion problem.  *)
(*                                                                         *)
(* Numbers.  Space and time coordinates are integers in units of 1e-9, so  *)
(* that the tolerances of np.isclose (atol 1e-8, rtol 1e-5) are whole      *)
(* numbers.  Field values, derivatives and the physical parameters are     *)
(* fixed-point numbers in hundredths (D = 0.01 is 1).  Targets of the      *)
(* initial and boundary conditions are the integers 0 and 1.               *)
(***************************************************************************)
EXTENDS Integers, Sequences, FiniteSets

(***************************************************************************)
(* Module-level constants of the script.                                   *)
(***************************************************************************)
\* coordinates, in units of 1e-9
L == 1000000000
T_final == 1000000000

\* physical parameters, in hundredths
u == 100
D == 1
alpha == 1
k == 1000
Ea == 5000
R == 100
Q == 1000

\* model.train(iterations=5000)
iterations == 5000

VARIABLES
    pc,           \* the statement of main() that runs next
    geomtime,     \* the space-time domain, once built
    conds,        \* the conditions built so far, in the order of their construction
    data,         \* the assembled TimePDE problem
    net,          \* the network
    model,        \* the dde.Model: its data, its net, whether it is compiled
    step,         \* training iterations run so far
    loss,         \* the loss of the last iteration run
    checkpoints,  \* the names model.save has written, in order
    args,         \* the arguments a function of the script is called with
    call,         \* the function last called on args
    ret           \* what that call returned

vars == <<pc, geomtime, conds, data, net, model, step, loss, checkpoints,
          args, call, ret>>

mainVars == <<pc, geomtime, conds, data, net, model, step, loss, checkpoints>>
callVars == <<args, call, ret>>

None == "none"

Abs(n) == IF n < 0 THEN -n ELSE n

(***************************************************************************)
(* Initial conditions: np.ones((len(x), 1)), one row of one column per     *)
(* point of the batch x.                                                   *)
(***************************************************************************)
\* init_cond_Y as it would be with np.zeros
init_cond_zeros(x) == [i \in 1..Len(x) |-> <<0>>]

init_cond_Y(x) == [i \in 1..Len(x) |-> <<1>>]

init_cond_T(x) == [i \in 1..Len(x) |-> <<1>>]

(***************************************************************************)
(* np.isclose(a, b) with numpy's defaults: |a - b| <= atol + rtol * |b|,   *)
(* atol = 1e-8 (10 units), rtol = 1e-5.                                    *)
(***************************************************************************)
isclose(a, b) == Abs(a - b) <= 10 + (Abs(b) \div 100000)

(***************************************************************************)
(* Boundary indicator functions.  A point x is <<x, t>>: x[1] is the       *)
(* script's x[0].                                                          *)
(***************************************************************************)
boundary_left(x, on_boundary) == on_boundary /\ isclose(x[1], 0)

\* boundary_right as it would be if it tested against 0.0 like boundary_left
boundary_right_at_zero(x, on_boundary) == on_boundary /\ isclose(x[1], 0)

boundary_right(x, on_boundary) == on_boundary /\ isclose(x[1], L)

\* lambda _, on_initial: on_initial
on_initial_filter(x, on_initial) == on_initial

\* lambda x: 1.0 and lambda x: 0.0
lambda_one(x) == 1

lambda_zero(x) == 0

(***************************************************************************)
(* The conditions of main().  A condition is the triple the script hands   *)
(* to dde.DirichletBC or dde.IC: the target function, the region           *)
(* predicate and the component; functions are held by name.                *)
(***************************************************************************)
bc_Y_left == [name |-> "bc_Y_left", kind |-> "DirichletBC", func |-> "lambda_one",
              on |-> "boundary_left", component |-> 0]

\* bc_Y_right as it would be with the target of bc_Y_left
bc_Y_right_one == [name |-> "bc_Y_right", kind |-> "DirichletBC", func |-> "lambda_one",
                   on |-> "boundary_right", component |-> 0]

bc_Y_right == [name |-> "bc_Y_right", kind |-> "DirichletBC", func |-> "lambda_zero",
               on |-> "boundary_right", component |-> 0]

bc_T_left == [name |-> "bc_T_left", kind |-> "DirichletBC", func |-> "lambda_one",
              on |-> "boundary_left", component |-> 1]

bc_T_right == [name |-> "bc_T_right", kind |-> "DirichletBC", func |-> "lambda_one",
               on |-> "boundary_right", component |-> 1]

ic_Y == [name |-> "ic_Y", kind |-> "IC", func |-> "init_cond_Y",
         on |-> "on_initial", component |-> 0]

ic_T == [name |-> "ic_T", kind |-> "IC", func |-> "init_cond_T",
         on |-> "on_initial", component |-> 1]

\* the region predicate of condition c at point x with the geometry's flag
Filter(c, x, flag) ==
    CASE c.on = "boundary_left" -> boundary_left(x, flag)
      [] c.on = "boundary_right" -> boundary_right(x, flag)
      [] c.on = "on_initial" -> on_initial_filter(x, flag)

\* the target of a Dirichlet condition c at point x
BCTarget(c, x) ==
    CASE c.func = "lambda_one" -> lambda_one(x)
      [] c.func = "lambda_zero" -> lambda_zero(x)

\* the targets of an initial condition c on the batch X
ICTarget(c, X) ==
    CASE c.func = "init_cond_Y" -> init_cond_Y(X)
      [] c.func = "init_cond_T" -> init_cond_T(X)

SeqToSet(s) == {s[i] : i \in 1..Len(s)}

\* the Dirichlet conditions among cs that hold at x, as (component, target)
DirichletAt(cs, x, flag) ==
    {c \in SeqToSet(cs) : c.kind = "DirichletBC" /\ Filter(c, x, flag)}

(***************************************************************************)
(* main(), one action per statement (or group of like statements).         *)
(***************************************************************************)
PcOrder == <<"domain", "bcs", "ics", "data", "net", "model", "compile",
             "train", "save", "done">>

\* the index of position p in main()
Rank(p) == CHOOSE i \in 1..Len(PcOrder) : PcOrder[i] = p

\* the loss of one iteration: a finite number, an infinity or a NaN
LossKinds == {"finite", "inf", "nan"}

\* spatial_domain, temporal_domain, geomtime: the script checks neither bound
BuildDomain(l, t) ==
    /\ pc = "domain"
    /\ geomtime' = [l |-> 0, r |-> l, t0 |-> 0, t1 |-> t]
    /\ pc' = "bcs"
    /\ UNCHANGED <<conds, data, net, model, step, loss, checkpoints, callVars>>

\* bc_Y_left, bc_Y_right, bc_T_left, bc_T_right
BuildBCs ==
    /\ pc = "bcs"
    /\ conds' = conds \o <<bc_Y_left, bc_Y_right, bc_T_left, bc_T_right>>
    /\ pc' = "ics"
    /\ UNCHANGED <<geomtime, data, net, model, step, loss, checkpoints, callVars>>

\* ic_Y, ic_T
BuildICs ==
    /\ pc = "ics"
    /\ conds' = conds \o <<ic_Y, ic_T>>
    /\ pc' = "data"
    /\ UNCHANGED <<geomtime, data, net, model, step, loss, checkpoints, callVars>>

\* the condition built under the given name
Cond(name) == CHOOSE c \in SeqToSet(conds) : c.name = name

\* data = dde.data.TimePDE(...)
Assemble ==
    /\ pc = "data"
    /\ data' = [geomtime |-> geomtime,
                pde |-> "pde",
                bcs |-> <<Cond("ic_Y"), Cond("ic_T"), Cond("bc_Y_left"),
                          Cond("bc_Y_right"), Cond("bc_T_left"), Cond("bc_T_right")>>,
                num_domain |-> 2540,
                num_boundary |-> 80,
                num_initial |-> 160,
                num_test |-> 10000]
    /\ pc' = "net"
    /\ UNCHANGED <<geomtime, conds, net, model, step, loss, checkpoints, callVars>>

\* net = dde.nn.FNN([2] + [50] * 3 + [2], "tanh", "Glorot normal")
BuildNet ==
    /\ pc = "net"
    /\ net' = [layers |-> <<2, 50, 50, 50, 2>>,
               activation |-> "tanh",
               initializer |-> "Glorot normal"]
    /\ pc' = "model"
    /\ UNCHANGED <<geomtime, conds, data, model, step, loss, checkpoints, callVars>>

\* model = dde.Model(data, net)
BuildModel ==
    /\ pc = "model"
    /\ model' = [data |-> data, net |-> net, optimizer |-> None]
    /\ pc' = "compile"
    /\ UNCHANGED <<geomtime, conds, data, net, step, loss, checkpoints, callVars>>

\* model.compile("adam", lr=1e-3)
Compile ==
    /\ pc = "compile"
    /\ model' = [model EXCEPT !.optimizer = "adam"]
    /\ pc' = "train"
    /\ UNCHANGED <<geomtime, conds, data, net, step, loss, checkpoints, callVars>>

(***************************************************************************)
(* model.train(iterations=5000).  The script fixes the budget and passes   *)
(* no callback; the loop itself is the library's.  One iteration leaves a  *)
(* loss of any kind.  The library's loop tests the loss it displays for    *)
(* NaN and then leaves the loop before the budget is used (deepxde's       *)
(* stop_training flag); the iteration at which it does so is not fixed     *)
(* here.                                                                   *)
(***************************************************************************)
TrainStep ==
    /\ pc = "train"
    /\ step < iterations
    /\ step' = step + 1
    /\ \E l \in LossKinds : loss' = l
    /\ UNCHANGED <<pc, geomtime, conds, data, net, model, checkpoints, callVars>>

\* the library ends the loop early on a NaN loss
TrainStop ==
    /\ pc = "train"
    /\ step < iterations
    /\ loss = "nan"
    /\ pc' = "save"
    /\ UNCHANGED <<geomtime, conds, data, net, model, step, loss, checkpoints, callVars>>

\* the budget is used up: train returns
TrainReturn ==
    /\ pc = "train"
    /\ step = iterations
    /\ pc' = "save"
    /\ UNCHANGED <<geomtime, conds, data, net, model, step, loss, checkpoints, callVars>>

\* Save as it would be if it did not wait for train to return.
SaveDuringTraining ==
    /\ pc \in {"train", "save"}
    /\ checkpoints' = Append(checkpoints, "model_checkpoint")
    /\ pc' = "done"
    /\ UNCHANGED <<geomtime, conds, data, net, model, step, loss, callVars>>

\* Save as it would be if it wrote the checkpoint twice.
SaveTwice ==
    /\ pc = "save"
    /\ checkpoints' = checkpoints \o <<"model_checkpoint", "model_checkpoint">>
    /\ pc' = "done"
    /\ UNCHANGED <<geomtime, conds, data, net, model, step, loss, callVars>>

\* Save as it would be if it skipped a checkpoint of a diverged run.
SaveIfFinite ==
    /\ pc = "save"
    /\ loss = "finite"
    /\ checkpoints' = Append(checkpoints, "model_checkpoint")
    /\ pc' = "done"
    /\ UNCHANGED <<geomtime, conds, data, net, model, step, loss, callVars>>

\* model.save("model_checkpoint")
Save ==
    /\ pc = "save"
    /\ checkpoints' = Append(checkpoints, "model_checkpoint")
    /\ pc' = "done"
    /\ UNCHANGED <<geomtime, conds, data, net, model, step, loss, callVars>>

\* The state of the trained model at position p of main().
ModelStateAt(p) ==
    CASE p = "train" -> "Training"
      [] p = "save" -> "Trained"
      [] p = "done" -> "Persisted"
      [] OTHER -> "Untrained"

ModelState == ModelStateAt(pc)

InitMain ==
    /\ pc = "domain"
    /\ geomtime = None
    /\ conds = <<>>
    /\ data = None
    /\ net = None
    /\ model = None
    /\ step = 0
    /\ loss = None
    /\ checkpoints = <<>>

InitNoCall ==
    /\ args = None
    /\ call = None
    /\ ret = None

Init == InitMain /\ InitNoCall

Next ==
    \/ BuildDomain(L, T_final)
    \/ BuildBCs
    \/ BuildICs
    \/ Assemble
    \/ BuildNet
    \/ BuildModel
    \/ Compile
    \/ TrainStep
    \/ TrainStop
    \/ TrainReturn
    \/ Save

Spec == Init /\ [][Next]_vars

\* main() is one thread of control: a step that can run does run
FairSpec == Spec /\ WF_vars(Next)

(***************************************************************************)
(* The same run with the two domain constants replaced by other values:    *)
(* what main() does with a domain of any length and duration.              *)
(***************************************************************************)
DomainValues == {-L, 0, L}

BuildAnyDomain == \E l \in DomainValues, t \in DomainValues : BuildDomain(l, t)

NextAnyDomain ==
    \/ BuildAnyDomain
    \/ BuildBCs
    \/ BuildICs
    \/ Assemble
    \/ BuildNet
    \/ BuildModel
    \/ Compile
    \/ TrainStep
    \/ TrainStop
    \/ TrainReturn
    \/ Save

SpecAnyDomain == Init /\ [][NextAnyDomain]_vars

(***************************************************************************)
(* The condition callbacks, called as the library calls them once the      *)
(* conditions are built: on a batch X of points, with the geometry's flag  *)
(* for the batch's first point.                                            *)
(***************************************************************************)
MaxBatch == 2

\* x: at, inside and just outside the tolerances around 0 and L, and mid-domain
XValues == {-11, -10, 0, 10, 11, L \div 2, L - 10011, L - 10010, L, L + 10010, L + 10011}

TValues == {0, T_final}

Points == XValues \X TValues

Batches == UNION {[1..n -> Points] : n \in 0..MaxBatch}

InitCond ==
    /\ InitMain
    /\ args \in [X : Batches, flag : BOOLEAN]
    /\ call = None
    /\ ret = None

CanCall == pc = "data" /\ call = None

CallInitCondY ==
    /\ CanCall
    /\ call' = "init_cond_Y"
    /\ ret' = init_cond_Y(args.X)
    /\ UNCHANGED <<mainVars, args>>

CallInitCondT ==
    /\ CanCall
    /\ call' = "init_cond_T"
    /\ ret' = init_cond_T(args.X)
    /\ UNCHANGED <<mainVars, args>>

CallBoundaryLeft ==
    /\ CanCall
    /\ Len(args.X) > 0
    /\ call' = "boundary_left"
    /\ ret' = boundary_left(Head(args.X), args.flag)
    /\ UNCHANGED <<mainVars, args>>

CallBoundaryRight ==
    /\ CanCall
    /\ Len(args.X) > 0
    /\ call' = "boundary_right"
    /\ ret' = boundary_right(Head(args.X), args.flag)
    /\ UNCHANGED <<mainVars, args>>

\* The Dirichlet conditions that claim the batch's first point, each with
\* the component it constrains and its target there.
EvalDirichlet ==
    /\ CanCall
    /\ Len(args.X) > 0
    /\ call' = "DirichletBC"
    /\ ret' = {[name |-> c.name, component |-> c.component,
                target |-> BCTarget(c, Head(args.X))] :
                    c \in DirichletAt(conds, Head(args.X), args.flag)}
    /\ UNCHANGED <<mainVars, args>>

\* The initial conditions on the batch taken as a batch of initial-time
\* points (flag on_initial true for each), each with its component and targets.
EvalIC ==
    /\ CanCall
    /\ call' = "IC"
    /\ ret' = {[name |-> c.name, component |-> c.component,
                target |-> ICTarget(c, args.X)] :
                    c \in {d \in SeqToSet(conds) :
                              /\ d.kind = "IC"
                              /\ \A i \in 1..Len(args.X) : Filter(d, args.X[i], TRUE)}}
    /\ UNCHANGED <<mainVars, args>>

NextCond ==
    \/ BuildDomain(L, T_final)
    \/ BuildBCs
    \/ BuildICs
    \/ CallInitCondY
    \/ CallInitCondT
    \/ CallBoundaryLeft
    \/ CallBoundaryRight
    \/ EvalDirichlet
    \/ EvalIC

SpecCond == InitCond /\ [][NextCond]_vars

(***************************************************************************)
(* pde().  Finite numbers are fixed-point, in hundredths.  A value of the  *)
(* residual computation is either non-finite (an infinity, a NaN) or the   *)
(* finite number  a + b * exp(e),  a, b and e in hundredths: the one       *)
(* transcendental factor of the computation, the Arrhenius exponential,    *)
(* is carried as such, so that sums and products are exact.  Non-finite    *)
(* values follow IEEE 754, as the tensors of the backend do.               *)
(***************************************************************************)
Scale == 10 * 10

Fin(a) == [kind |-> "fin", a |-> a, b |-> 0, e |-> 0]

NonFin(kd) == [kind |-> kd, a |-> 0, b |-> 0, e |-> 0]

IsZero(v) == v.kind = "fin" /\ v.a = 0 /\ v.b = 0

Sign(n) == IF n > 0 THEN 1 ELSE IF n < 0 THEN -1 ELSE 0

\* fixed-point product and quotient of finite numbers (d # 0), rounded down
FMul(x, y) == (x * y) \div Scale

FDiv(n, d) == IF d > 0 THEN (n * Scale) \div d ELSE ((-n) * Scale) \div (-d)

\* c * v for a finite fixed-point c
Times(c, v) ==
    CASE v.kind = "fin" ->
             [kind |-> "fin", a |-> FMul(c, v.a), b |-> FMul(c, v.b),
              e |-> IF FMul(c, v.b) = 0 THEN 0 ELSE v.e]
      [] v.kind = "nan" -> NonFin("nan")
      [] OTHER -> \* c * (+-inf)
             IF c = 0 THEN NonFin("nan")
             ELSE IF (Sign(c) = 1) = (v.kind = "pinf")
                  THEN NonFin("pinf") ELSE NonFin("ninf")

\* v + w; finite operands carry the same exponential, if any
Plus(v, w) ==
    CASE v.kind = "nan" \/ w.kind = "nan" -> NonFin("nan")
      [] v.kind = "fin" /\ w.kind = "fin" ->
             [kind |-> "fin", a |-> v.a + w.a, b |-> v.b + w.b,
              e |-> IF v.b + w.b = 0 THEN 0 ELSE IF v.b # 0 THEN v.e ELSE w.e]
      [] v.kind = "fin" -> w
      [] w.kind = "fin" -> v
      [] OTHER -> IF v.kind = w.kind THEN v ELSE NonFin("nan")

Minus(v, w) == Plus(v, Times(-Scale, w))

(***************************************************************************)
(* -Ea / (R * temp): a division by zero gives an infinity, of the sign of  *)
(* the numerator over +0.                                                  *)
(***************************************************************************)
ArrheniusArg(temp) ==
    IF FMul(R, temp) = 0
    THEN NonFin(IF -Ea < 0 THEN "ninf" ELSE "pinf")
    ELSE Fin(FDiv(-Ea, FMul(R, temp)))

(***************************************************************************)
(* dde.math.exp on the library's default float32: above ln(max float32) =  *)
(* 88.72 the result is +inf, below ln(min subnormal / 2) = -103.98 it is   *)
(* 0, exp(-inf) = 0 and exp(+inf) = +inf.                                  *)
(***************************************************************************)
Exp(x) ==
    CASE x.kind = "nan" -> NonFin("nan")
      [] x.kind = "pinf" -> NonFin("pinf")
      [] x.kind = "ninf" -> Fin(0)
      [] OTHER ->
             IF x.a > 8872 THEN NonFin("pinf")
             ELSE IF x.a < -10398 THEN Fin(0)
             ELSE [kind |-> "fin", a |-> 0, b |-> Scale, e |-> x.a]

\* reaction_rate as it would be with the sign of the exponent lost
reaction_rate_plus(Y, temp) ==
    Times(FMul(k, Y), Exp(Times(-Scale, ArrheniusArg(temp))))

\* reaction_rate = k * Y * dde.math.exp(-Ea / (R * temp)), left to right
reaction_rate(Y, temp) == Times(FMul(k, Y), Exp(ArrheniusArg(temp)))

\* eq_Y = Y_t + u * Y_x - D * Y_xx + reaction_rate
eq_Y(a) ==
    Plus(Fin(a.Y_t + FMul(u, a.Y_x) - FMul(D, a.Y_xx)), reaction_rate(a.Y, a.temp))

\* eq_T as it would be with the sign of the heat release term wrong: + Q * rate
eq_T_plus(a) ==
    Plus(Fin(a.T_t + FMul(u, a.T_x) - FMul(alpha, a.T_xx)),
         Times(Q, reaction_rate(a.Y, a.temp)))

\* eq_T = T_t + u * T_x - alpha * T_xx - Q * reaction_rate
eq_T(a) ==
    Minus(Fin(a.T_t + FMul(u, a.T_x) - FMul(alpha, a.T_xx)),
          Times(Q, reaction_rate(a.Y, a.temp)))

\* return [eq_Y, eq_T]
pde(a) == <<eq_Y(a), eq_T(a)>>

(***************************************************************************)
(* pde() called at one point: the field values and the six derivatives     *)
(* the library's differentiation supplies there.                           *)
(***************************************************************************)
MaxDeriv == 1

\* derivatives: whole numbers, so that the products with D and alpha are exact
DerivValues == {d * Scale : d \in -MaxDeriv..MaxDeriv}

YValues == {-Scale, 0, Scale \div 2, Scale}

\* Temp: -1, -0.05, 0, 0.05, 1, 2
TempValues == {-Scale, -5, 0, 5, Scale, 2 * Scale}

InitPde ==
    /\ InitMain
    /\ args \in [Y : YValues, temp : TempValues,
                 Y_t : DerivValues, Y_x : DerivValues, Y_xx : DerivValues,
                 T_t : DerivValues, T_x : DerivValues, T_xx : DerivValues]
    /\ call = None
    /\ ret = None

CallPde ==
    /\ call = None
    /\ call' = "pde"
    /\ ret' = pde(args)
    /\ UNCHANGED <<mainVars, args>>

NextPde == CallPde

SpecPde == InitPde /\ [][NextPde]_vars

(***************************************************************************)
(* The number a finite value stands for, enclosed between two decimals     *)
(* m * 10^x of six digits (100000 <= m <= 999999).  Products round down    *)
(* for the lower bound and up for the upper one; exp(n) is the n-th power  *)
(* of an enclosure of e or of 1/e, and exp of a fraction is enclosed by    *)
(* exp of the whole numbers around it.                                     *)
(***************************************************************************)
RECURSIVE NormLo(_, _)
NormLo(p, x) == IF p >= 1000000 THEN NormLo(p \div 10, x + 1) ELSE [m |-> p, x |-> x]

RECURSIVE NormHi(_, _)
NormHi(p, x) == IF p >= 1000000 THEN NormHi((p + 9) \div 10, x + 1) ELSE [m |-> p, x |-> x]

RECURSIVE NormUp(_, _)
NormUp(p, x) == IF p < 100000 THEN NormUp(p * 10, x - 1) ELSE [m |-> p, x |-> x]

\* floor(c.m * d.m / 1000), without leaving 32 bits
Prod3(c, d) == (c.m \div 1000) * d.m + ((c.m % 1000) * d.m) \div 1000

MulLo(c, d) == NormLo(Prod3(c, d), c.x + d.x + 3)

MulHi(c, d) == NormHi(Prod3(c, d) + 1, c.x + d.x + 3)

DecOne == [m |-> 100000, x |-> -5]

\* 2.71828 < e < 2.71829 and 0.367879 < 1/e < 0.367880
ELo == [m |-> 271828, x |-> -5]
EHi == [m |-> 271829, x |-> -5]
EInvLo == [m |-> 367879, x |-> -6]
EInvHi == [m |-> 367880, x |-> -6]

\* powers by repeated squaring
RECURSIVE PowLo(_, _)
PowLo(c, n) ==
    IF n = 0 THEN DecOne
    ELSE IF n = 1 THEN c
    ELSE LET h == PowLo(c, n \div 2)
         IN IF n % 2 = 0 THEN MulLo(h, h) ELSE MulLo(MulLo(h, h), c)

RECURSIVE PowHi(_, _)
PowHi(c, n) ==
    IF n = 0 THEN DecOne
    ELSE IF n = 1 THEN c
    ELSE LET h == PowHi(c, n \div 2)
         IN IF n % 2 = 0 THEN MulHi(h, h) ELSE MulHi(MulHi(h, h), c)

\* bounds of exp(e / Scale)
ExpLo(e) ==
    LET n == e \div Scale
    IN IF n >= 0 THEN PowLo(ELo, n) ELSE PowLo(EInvLo, -n)

ExpHi(e) ==
    LET n == -((-e) \div Scale)
    IN IF n >= 0 THEN PowHi(EHi, n) ELSE PowHi(EInvHi, -n)

\* bounds of the finite value v = b * exp(e) with b > 0 (and a = 0)
ValLo(v) == MulLo(NormUp(v.b, -2), ExpLo(v.e))

ValHi(v) == MulHi(NormUp(v.b, -2), ExpHi(v.e))

DecLeq(c, d) == c.x < d.x \/ (c.x = d.x /\ c.m <= d.m)

(***************************************************************************)
(*                          The run of main()                              *)
(***************************************************************************)
StateRank(st) ==
    CASE st = "Untrained" -> 1
      [] st = "Training" -> 2
      [] st = "Trained" -> 3
      [] st = "Persisted" -> 4

\* what has been built and written at each position of main()
BuiltSoFar ==
    /\ Len(conds) = (IF Rank(pc) <= 2 THEN 0 ELSE IF Rank(pc) = 3 THEN 4 ELSE 6)
    /\ Rank(pc) < Rank("train") => step = 0
    /\ Len(checkpoints) = (IF pc = "done" THEN 1 ELSE 0)

\* one step of main(): the next statement, or one more training iteration
InOrder ==
    /\ pc' # pc => Rank(pc') = Rank(pc) + 1
    /\ pc' = pc => pc = "train" /\ step' = step + 1
    /\ checkpoints' # checkpoints => pc = "save" /\ ModelState = "Trained"
    /\ StateRank(ModelStateAt(pc')) - StateRank(ModelState) \in {0, 1}

\* C1: main() is one sequential flow: build domain, build the conditions,
\* assemble the problem, build the network (and the model), compile, train,
\* save, each statement run once and in this order (only a training
\* iteration repeats its position); the checkpoint is written only from the
\* position after training, and the model goes Untrained, Training, Trained,
\* Persisted without a step back.
C1_SequentialFlow == [](BuiltSoFar) /\ [][InOrder]_vars

\* a whole run, with the full budget used and a finite final loss
C1_Witness ==
    /\ pc = "done"
    /\ step = iterations
    /\ loss = "finite"
    /\ Len(conds) = 6
    /\ ModelState = "Persisted"

C8_OneCheckpoint ==
    /\ pc # "done" => checkpoints = <<>>
    /\ pc = "done" => checkpoints = <<"model_checkpoint">>

\* the checkpoint of a run, written
C8_Witness ==
    /\ pc = "done"
    /\ checkpoints = <<"model_checkpoint">>
    /\ step > 0

\* C3, as stated: with L <= 0 or T <= 0 main() does not get past building
\* the domain (it fails there, before any condition is built, any training
\* step runs or any checkpoint is written).
C3_InvalidDomainFails ==
    Rank(pc) > 1 => geomtime.r > 0 /\ geomtime.t1 > 0

(***************************************************************************)
(*                     The condition callbacks                             *)
(***************************************************************************)
\* an n-by-1 array of ones
Ones(n) == [i \in 1..n |-> <<1>>]

\* C4: on every batch of initial-time points, of any length n >= 0 and any
\* coordinates, init_cond_Y and init_cond_T each return one target per point,
\* an n-by-1 array, every target 1; the initial conditions put the first on
\* component 0 (Y) and the second on component 1 (Temp).
C4_InitialTargets ==
    /\ call \in {"init_cond_Y", "init_cond_T"} =>
           /\ Len(ret) = Len(args.X)
           /\ \A i \in 1..Len(ret) : Len(ret[i]) = 1 /\ ret[i][1] = 1
    /\ call = "IC" =>
           ret = {[name |-> "ic_Y", component |-> 0, target |-> Ones(Len(args.X))],
                  [name |-> "ic_T", component |-> 1, target |-> Ones(Len(args.X))]}

\* init_cond_Y has answered a batch of two different points
C4_Witness ==
    /\ call = "init_cond_Y"
    /\ Len(args.X) = 2
    /\ args.X[1] # args.X[2]
    /\ ret = <<<<1>>, <<1>>>>

\* the (component, target) pairs of the conditions that claimed the point
TargetPairs == {<<r.component, r.target>> : r \in ret}

CondNames == {r.name : r \in ret}

\* C5: at every boundary point with x = 0, whatever t, the Dirichlet targets
\* are Y = 1 on component 0 and Temp = 1 on component 1 (the two conditions
\* on boundary_left); at x = L they are Y = 0 on component 0 and Temp = 1 on
\* component 1 (the two conditions on boundary_right).
C5_DirichletTargets ==
    call = "DirichletBC" /\ args.flag =>
        /\ Head(args.X)[1] = 0 =>
               /\ TargetPairs = {<<0, 1>>, <<1, 1>>}
               /\ CondNames = {"bc_Y_left", "bc_T_left"}
        /\ Head(args.X)[1] = L =>
               /\ TargetPairs = {<<0, 0>>, <<1, 1>>}
               /\ CondNames = {"bc_Y_right", "bc_T_right"}

\* the conditions evaluated at a boundary point x = L at the final time
C5_Witness ==
    /\ call = "DirichletBC"
    /\ args.flag
    /\ Head(args.X) = <<L, T_final>>
    /\ Cardinality(ret) = 2

\* C10: boundary_left and boundary_right are both false when on_boundary is
\* false; on the boundary, x = 0 satisfies boundary_left and not
\* boundary_right, x = L satisfies boundary_right and not boundary_left, and
\* no point satisfies both.  So at every boundary point each component (0 and
\* 1) is constrained by exactly one Dirichlet condition, and at no point by two.
C10_BoundaryPartition ==
    /\ call = "boundary_left" =>
           /\ ~args.flag => ~ret
           /\ args.flag /\ Head(args.X)[1] = 0 => ret
           /\ args.flag /\ Head(args.X)[1] = L => ~ret
    /\ call = "boundary_right" =>
           /\ ~args.flag => ~ret
           /\ args.flag /\ Head(args.X)[1] = L => ret
           /\ args.flag /\ Head(args.X)[1] = 0 => ~ret
    /\ call = "DirichletBC" =>
           /\ ~args.flag => ret = {}
           /\ ~(\E r1, r2 \in ret : r1.name \in {"bc_Y_left", "bc_T_left"}
                                    /\ r2.name \in {"bc_Y_right", "bc_T_right"})
           /\ \A c \in {0, 1} :
                  /\ Cardinality({r \in ret : r.component = c}) <= 1
                  /\ args.flag /\ Head(args.X)[1] \in {0, L} =>
                         Cardinality({r \in ret : r.component = c}) = 1

\* boundary_right has accepted a boundary point at x = L
C10_Witness ==
    /\ call = "boundary_right"
    /\ args.flag
    /\ Head(args.X)[1] = L
    /\ ret = TRUE

(***************************************************************************)
(*                              pde()                                      *)
(***************************************************************************)
\* the derivative part of each residual, as the claim writes it
LinearY == args.Y_t + FMul(u, args.Y_x) - FMul(D, args.Y_xx)

LinearT == args.T_t + FMul(u, args.T_x) - FMul(alpha, args.T_xx)

NoDerivs ==
    /\ args.Y_t = 0 /\ args.Y_x = 0 /\ args.Y_xx = 0
    /\ args.T_t = 0 /\ args.T_x = 0 /\ args.T_xx = 0

\* C9: pde() returns the pair (residual_Y, residual_T), in this order:
\* residual_Y = dY/dt + u dY/dx - D d2Y/dx2 + rate and
\* residual_T = dT/dt + u dT/dx - alpha d2T/dx2 - Q rate, with one and the
\* same rate = k Y exp(..) in both, so that Q residual_Y + residual_T has no
\* reaction term, and both residuals are 0 when the derivatives and the rate
\* are 0.  (A non-finite rate makes both residuals non-finite.)
C9_Residuals ==
    call = "pde" =>
        /\ Len(ret) = 2
        /\ ret[1].kind = "fin" =>
               /\ ret[2].kind = "fin"
               /\ ret[1].a = LinearY
               /\ ret[2].a = LinearT
               /\ ret[1].b \in {0, FMul(k, args.Y)}
               /\ ret[2].b = -FMul(Q, ret[1].b)
               /\ FMul(Q, ret[1].b) + ret[2].b = 0
               /\ ret[1].b # 0 => ret[2].e = ret[1].e
               /\ NoDerivs /\ ret[1].b = 0 => IsZero(ret[1]) /\ IsZero(ret[2])
        /\ ret[1].kind = "nan" => ret[2].kind = "nan"
        /\ ret[1].kind = "pinf" => ret[2].kind = "ninf"
        /\ ret[1].kind = "ninf" => ret[2].kind = "pinf"

\* residuals with a reaction term and non-zero derivatives in both equations
C9_Witness ==
    /\ call = "pde"
    /\ ret[1].kind = "fin"
    /\ ret[1].b # 0
    /\ args.Y_xx # 0
    /\ args.T_x # 0
    /\ ret[2].a # ret[1].a

\* C6, as stated: whenever Y = 0 the reaction rate is 0, a finite value,
\* whatever Temp is (0 and negative values included).  With no derivative of
\* Y the first residual is the rate itself.
C6_ZeroRateAtZeroY ==
    (/\ call = "pde"
     /\ args.Y = 0
     /\ args.Y_t = 0 /\ args.Y_x = 0 /\ args.Y_xx = 0) => IsZero(ret[1])

\* Y = 1, Temp = 1 and no derivative of Y: the first residual is the rate
AtOneOne ==
    /\ call = "pde"
    /\ args.Y = Scale
    /\ args.temp = Scale
    /\ args.Y_t = 0 /\ args.Y_x = 0 /\ args.Y_xx = 0

\* the rate is 10 * exp(-50) and lies between the decimals lo and hi
RateBetween(lo, hi) ==
    /\ ret[1].kind = "fin"
    /\ ret[1].a = 0
    /\ ret[1].b = 10 * Scale
    /\ ret[1].e = -50 * Scale
    /\ DecLeq(lo, ValLo(ret[1]))
    /\ DecLeq(ValHi(ret[1]), hi)

\* L = 1.0, Ea = 50.0, R = 1.0, k = 10.0
ClaimedConstants ==
    /\ L = 1000000000
    /\ Ea = 50 * Scale
    /\ R = Scale
    /\ k = 10 * Scale

\* C7, as stated: with L = 1.0, T = 50.0, Ea = 50.0, R = 1.0, k = 10.0 the
\* rate at Y = 1, Temp = 1 is 10 * exp(-50), about 1.93e-20 (1.925e-20 to
\* 1.935e-20).
C7_RateE20 ==
    AtOneOne =>
        /\ ClaimedConstants
        /\ T_final % 50 = 0 /\ T_final \div 50 = L
        /\ RateBetween([m |-> 192500, x |-> -25], [m |-> 193500, x |-> -25])

\* C7, amended: with the script's constants, L = 1.0, T_final = 1.0,
\* Ea = 50.0, R = 1.0, k = 10.0, the rate at Y = 1, Temp = 1 is
\* 10 * exp(-50), about 1.93e-21 (1.925e-21 to 1.935e-21).
C7_RateE21 ==
    AtOneOne =>
        /\ ClaimedConstants
        /\ T_final = L
        /\ RateBetween([m |-> 192500, x |-> -26], [m |-> 193500, x |-> -26])

\* pde() has run at Y = 1, Temp = 1 with no derivative at all
C7_Witness ==
    /\ AtOneOne
    /\ NoDerivs
    /\ ret[1].b = 10 * Scale

====
